---- MODULE Spec2Model ----
(***************************************************************************)
(* Model of embedded-can-mock: an in-memory CAN bus (src/src/bus.rs), its  *)
(* acceptance filters (src/src/filter.rs) and frames (src/src/frame.rs).   *)
(*                                                                         *)
(* Every public operation of BusHandle / InterfaceHandle is a sequence of  *)
(* steps of a calling thread.  A step starts where a blocking call         *)
(* (Mutex::lock, Condvar::wait) returns and runs to the next blocking call *)
(* or to the end of the operation, so a thread waiting for a lock, a       *)
(* thread parked on a condition variable and the locks held across a       *)
(* blocking call are states of the model.                                  *)
(***************************************************************************)
EXTENDS Integers, Sequences, FiniteSets, TLC

\* ------------------------------------------------------------------ bounds
NumThreads == 3
NumIfaces == 2
NumBuses == 2
MaxOps == 5
MaxHandles == 2
MaxRaw == 3

Threads == 1..NumThreads
Ifaces == 1..NumIfaces
Buses == 1..NumBuses

\* ------------------------------------------------------------ identifiers
RECURSIVE BitAnd(_, _)
BitAnd(a, b) ==
    IF a = 0 \/ b = 0 THEN 0
    ELSE (a % 2) * (b % 2) + 2 * BitAnd(a \div 2, b \div 2)

StdId(r) == [tag |-> "Standard", raw |-> r]
ExtId(r) == [tag |-> "Extended", raw |-> r]
IdMaskFilter(i, m) == [id |-> i, mask |-> m]

\* ----------------------------------------------------------------- frames
MockFrame(i, kind, bytes, n) ==
    [id |-> i, frame_type |-> [kind |-> kind, data |-> bytes, dlc |-> n]]
NewData(i, bytes) == MockFrame(i, "Standard", bytes, 0)
NewRemote(i, n) == MockFrame(i, "Remote", <<>>, n)

\* The frames callers transmit: a data frame and a remote frame with standard
\* identifiers 1 and 3, and a data frame with extended identifier 1.
FrameA == NewData(StdId(1), <<16>>)
FrameB == NewRemote(StdId(3), 1)
FrameD == NewData(ExtId(1), <<16>>)
Frames == {FrameA, FrameB, FrameD}

\* ---------------------------------------------------------------- filters
Matches_AnyTag(filter, match_id) ==
    BitAnd(match_id.raw, filter.mask.raw) = BitAnd(filter.id.raw, filter.mask.raw)

Matches(filter, match_id) ==
    CASE filter.id.tag = "Standard" /\ filter.mask.tag = "Standard"
              /\ match_id.tag = "Standard" ->
            BitAnd(match_id.raw, filter.mask.raw) = BitAnd(filter.id.raw, filter.mask.raw)
      [] filter.id.tag = "Extended" /\ filter.mask.tag = "Extended"
              /\ match_id.tag = "Extended" ->
            BitAnd(match_id.raw, filter.mask.raw) = BitAnd(filter.id.raw, filter.mask.raw)
      [] OTHER -> FALSE

ValidateFilter(filter) ==
    CASE filter.id.tag = "Standard" /\ filter.mask.tag = "Standard" -> TRUE
      [] filter.id.tag = "Extended" /\ filter.mask.tag = "Extended" -> TRUE
      [] OTHER -> FALSE

ValidateFilters_FirstOnly(filters) ==
    filters = <<>> \/ ValidateFilter(filters[1])

ValidateFilters(filters) ==
    \A k \in 1..Len(filters) : ValidateFilter(filters[k])

\* The filter lists callers pass in: the empty list, one exact standard filter,
\* an extended filter followed by a standard filter with a partial mask, and a
\* list whose second filter has an id and a mask of different kinds.
FStdExact == IdMaskFilter(StdId(1), StdId(3))
FStdOdd == IdMaskFilter(StdId(1), StdId(1))
FExtExact == IdMaskFilter(ExtId(1), ExtId(3))
FBadExtStd == IdMaskFilter(ExtId(1), StdId(3))
FilterLists ==
    { <<>>, <<FStdExact>>, <<FExtExact, FStdOdd>>, <<FStdExact, FBadExtStd>> }

\* ------------------------------------------------------------------ state
VARIABLES
    ifaces,     \* MockInterface per interface: filters, bus (Weak), received_frames
    ilock,      \* owner of each interface's Mutex (0: free)
    buses,      \* MockBus per bus: interfaces, and the BusHandles that own it
    block,      \* owner of each bus's Mutex (0: free)
    pc,         \* each thread's position in the operation it runs
    call,       \* the arguments of each thread's current (or last) call
    arc,        \* the bus each thread holds a strong Arc to (0: none)
    idx,        \* the fan-out position of each thread's transmit
    ret,        \* the value each thread's last call returned
    ops,        \* calls the callers may still start
    delivered,  \* history: every frame pushed to each interface's queue, in order
    popped,     \* history: every frame pop_frame returned for each interface
    attached,   \* history: the buses each interface attached to successfully
    pre         \* the shared state when the latest call started

vars == <<ifaces, ilock, buses, block, pc, call, arc, idx, ret, ops,
          delivered, popped, attached, pre>>

NoCall == [op |-> "none", iface |-> 0, bus |-> 0, frame |-> <<>>,
           filters |-> <<>>, timeout |-> FALSE]
NoRet == [res |-> "none", frames |-> <<>>, n |-> 0]
Result(r) == [res |-> r, frames |-> <<>>, n |-> 0]

NoInterface == [created |-> FALSE, filters |-> <<>>, bus |-> 0, received_frames |-> <<>>]
NoBus == [created |-> FALSE, handles |-> 0, interfaces |-> <<>>]

\* BusHandle::new: an empty bus owned by one handle
NewBus == [created |-> TRUE, handles |-> 1, interfaces |-> <<>>]

\* Callers that have made nothing but the buses of `made`, one handle each, and
\* may start `budget` calls.
Start(made, budget) ==
    /\ ifaces = [i \in Ifaces |-> NoInterface]
    /\ ilock = [i \in Ifaces |-> 0]
    /\ buses = [b \in Buses |-> IF b \in made THEN NewBus ELSE NoBus]
    /\ block = [b \in Buses |-> 0]
    /\ pc = [t \in Threads |-> "idle"]
    /\ call = [t \in Threads |-> NoCall]
    /\ arc = [t \in Threads |-> 0]
    /\ idx = [t \in Threads |-> 0]
    /\ ret = [t \in Threads |-> NoRet]
    /\ ops = budget
    /\ delivered = [i \in Ifaces |-> <<>>]
    /\ popped = [i \in Ifaces |-> <<>>]
    /\ attached = [i \in Ifaces |-> <<>>]
    /\ pre = [ifaces |-> ifaces, buses |-> buses]

\* let bus = BusHandle::new();
Init == Start({1}, MaxOps)

\* ------------------------------------------------------- shared ownership
\* Arc<Mutex<MockBus>>: the strong count is the BusHandles plus the Arcs that
\* threads hold inside attach_to_bus and transmit_arc.
StrongCount(bs, a, b) == bs[b].handles + Cardinality({t \in Threads : a[t] = b})

\* Weak::upgrade: the bus, or 0 (None) when the weak reference is empty or the
\* bus has no strong reference left.
Upgrade_AlwaysNone(w) == 0

Upgrade_KeepsAlive(w) == w

Upgrade(w) == IF w # 0 /\ StrongCount(buses, arc, w) > 0 THEN w ELSE 0

\* Dropping the last strong reference drops the MockBus and its registry.
Reclaim(bs, a) ==
    [b \in Buses |->
        IF bs[b].created /\ StrongCount(bs, a, b) = 0
        THEN [bs[b] EXCEPT !.interfaces = <<>>]
        ELSE bs[b]]

\* A thread inside a method of a BusHandle borrows that handle.
BusHandlePcs == {"at_lock", "at_buslock", "ic_lock"}
Borrowed(b) == \E t \in Threads : pc[t] \in BusHandlePcs /\ call[t].bus = b

\* An interface whose handle a caller holds: created, and not still inside the
\* add_interface call that constructs it.
Usable(i) ==
    /\ ifaces[i].created
    /\ ~ \E t \in Threads :
            pc[t] # "idle" /\ call[t].op = "add_interface" /\ call[t].iface = i

Begin(t, c) ==
    /\ pc[t] = "idle"
    /\ ops > 0
    /\ ops' = ops - 1
    /\ call' = [call EXCEPT ![t] = c]
    /\ pre' = [ifaces |-> ifaces, buses |-> buses]

\* ------------------------------------------------------------- BusHandle
\* BusHandle::new
BusNew(t) ==
    \E b \in Buses :
        /\ ~buses[b].created
        /\ \A c \in Buses : c < b => buses[c].created
        /\ Begin(t, [NoCall EXCEPT !.op = "bus_new", !.bus = b])
        /\ buses' = [buses EXCEPT ![b] = NewBus]
        /\ ret' = [ret EXCEPT ![t] = Result("Ok")]
        /\ UNCHANGED <<ifaces, ilock, block, pc, arc, idx, delivered, popped, attached>>

\* BusHandle::clone
BusClone(t) ==
    \E b \in Buses :
        /\ buses[b].handles > 0
        /\ buses[b].handles < MaxHandles
        /\ Begin(t, [NoCall EXCEPT !.op = "bus_clone", !.bus = b])
        /\ buses' = [buses EXCEPT ![b].handles = @ + 1]
        /\ ret' = [ret EXCEPT ![t] = Result("Ok")]
        /\ UNCHANGED <<ifaces, ilock, block, pc, arc, idx, delivered, popped, attached>>

\* drop(BusHandle)
BusDrop(t) ==
    \E b \in Buses :
        /\ buses[b].handles > 0
        /\ buses[b].handles > 1 \/ ~Borrowed(b)
        /\ Begin(t, [NoCall EXCEPT !.op = "bus_drop", !.bus = b])
        /\ buses' = Reclaim([buses EXCEPT ![b].handles = @ - 1], arc)
        /\ ret' = [ret EXCEPT ![t] = Result("Ok")]
        /\ UNCHANGED <<ifaces, ilock, block, pc, arc, idx, delivered, popped, attached>>

\* ------------------------------------------------------ interface creation
\* MockInterface::new
NewInterface_BoundToFirstBus(filters) ==
    [created |-> TRUE, filters |-> filters, bus |-> 1, received_frames |-> <<>>]

NewInterface(filters) ==
    [created |-> TRUE, filters |-> filters, bus |-> 0, received_frames |-> <<>>]

Fresh(i) ==
    /\ ~ifaces[i].created
    /\ \A j \in Ifaces : j < i => ifaces[j].created

\* InterfaceHandle::new_unattached
NewUnattached(t, lists) ==
    \E i \in Ifaces, fl \in lists :
        /\ Fresh(i)
        /\ Begin(t, [NoCall EXCEPT !.op = "new_unattached", !.iface = i, !.filters = fl])
        /\ ifaces' = [ifaces EXCEPT ![i] = NewInterface(fl)]
        /\ ret' = [ret EXCEPT ![t] = Result("Ok")]
        /\ UNCHANGED <<ilock, buses, block, pc, arc, idx, delivered, popped, attached>>

\* -------------------------------------------------------------- attaching
Goto(t, label) == pc' = [pc EXCEPT ![t] = label]
Return(t, r) ==
    /\ pc' = [pc EXCEPT ![t] = "idle"]
    /\ ret' = [ret EXCEPT ![t] = r]

\* The guard on the interface that attach_to_bus runs under: taken by the
\* caller (self.0.lock() / interface.lock()) and held until the method returns.
AttachGuard_Released(locks, i, t) == locks

AttachGuard(locks, i, t) == [locks EXCEPT ![i] = t]

\* BusHandle::add_interface: validate, construct, lock the new interface and
\* enter MockInterface::attach_to_bus with a clone of the bus Arc, up to its
\* bus.lock().
AddInterface(t, lists) ==
    \E b \in Buses, fl \in lists :
        /\ buses[b].handles > 0
        /\ IF ~ValidateFilters(fl)
           THEN /\ Begin(t, [NoCall EXCEPT !.op = "add_interface", !.bus = b,
                                           !.filters = fl])
                /\ ret' = [ret EXCEPT ![t] = Result("InvalidFilters")]
                /\ UNCHANGED <<ifaces, ilock, pc, arc>>
           ELSE \E i \in Ifaces :
                /\ Fresh(i)
                /\ Begin(t, [NoCall EXCEPT !.op = "add_interface", !.bus = b,
                                           !.filters = fl, !.iface = i])
                /\ ifaces' = [ifaces EXCEPT ![i] = NewInterface(fl)]
                /\ IF Upgrade(NewInterface(fl).bus) # 0
                   THEN /\ ret' = [ret EXCEPT ![t] = Result("BusAlreadyAttached")]
                        /\ UNCHANGED <<ilock, pc, arc>>
                   ELSE /\ ilock' = AttachGuard(ilock, i, t)
                        /\ arc' = [arc EXCEPT ![t] = b]
                        /\ pc' = [pc EXCEPT ![t] = "at_buslock"]
                        /\ UNCHANGED ret
        /\ UNCHANGED <<buses, block, idx, delivered, popped, attached>>

\* InterfaceHandle::attach_to_bus is called; the caller next takes the
\* interface's lock.
AttachCall(t) ==
    \E i \in Ifaces, b \in Buses :
        /\ Usable(i)
        /\ buses[b].handles > 0
        /\ Begin(t, [NoCall EXCEPT !.op = "attach_to_bus", !.iface = i, !.bus = b])
        /\ Goto(t, "at_lock")
        /\ UNCHANGED <<ifaces, ilock, buses, block, arc, idx, ret,
                       delivered, popped, attached>>

\* self.0.lock(), bus.0.clone(), match self.bus.upgrade(): Some(_) returns
\* BusAlreadyAttached and drops the guard; None goes on to bus.lock() with the
\* interface's guard held.
AttachCheck(t) ==
    /\ pc[t] = "at_lock"
    /\ ilock[call[t].iface] = 0
    /\ IF Upgrade(ifaces[call[t].iface].bus) # 0
       THEN /\ Return(t, Result("BusAlreadyAttached"))
            /\ UNCHANGED <<ilock, arc>>
       ELSE /\ ilock' = AttachGuard(ilock, call[t].iface, t)
            /\ arc' = [arc EXCEPT ![t] = call[t].bus]
            /\ Goto(t, "at_buslock")
            /\ UNCHANGED ret
    /\ UNCHANGED <<ifaces, buses, block, call, idx, ops, delivered, popped, attached, pre>>

\* bus.lock() is acquired: .interfaces.push(self.me.upgrade().unwrap()), the
\* bus guard is dropped, self.bus = Arc::downgrade(&bus), Ok(()), and the
\* interface's guard and the Arc are dropped.
RegistryPush_Replace(reg, i) == <<i>>

RegistryPush(reg, i) == Append(reg, i)

AttachRegister(t) ==
    /\ pc[t] = "at_buslock"
    /\ block[call[t].bus] = 0
    /\ ifaces' = [ifaces EXCEPT ![call[t].iface].bus = call[t].bus]
    /\ attached' = [attached EXCEPT ![call[t].iface] = Append(@, call[t].bus)]
    /\ ilock' = [ilock EXCEPT ![call[t].iface] = 0]
    /\ arc' = [arc EXCEPT ![t] = 0]
    /\ buses' = Reclaim([buses EXCEPT ![call[t].bus].interfaces =
                                          RegistryPush(@, call[t].iface)], arc')
    /\ Return(t, Result("Ok"))
    /\ UNCHANGED <<block, call, idx, ops, delivered, popped, pre>>

\* ----------------------------------------------------------- transmitting
\* MockBus::transmit, should_receive
ShouldReceive_NoEmptyCase(filters, frame) ==
    \E k \in 1..Len(filters) : Matches(filters[k], frame.id)

ShouldReceive_All(filters, frame) ==
    \A k \in 1..Len(filters) : Matches(filters[k], frame.id)

ShouldReceive(filters, frame) ==
    IF filters = <<>> THEN TRUE
    ELSE \E k \in 1..Len(filters) : Matches(filters[k], frame.id)

\* VecDeque::push_back
PushBack(queue, frame) == Append(queue, frame)

\* Condvar::notify_all on the interface's condvar: every thread parked on it
\* goes to reacquire the lock.
NotifyAll(p, i) ==
    [u \in Threads |->
        IF p[u] = "wf_parked" /\ call[u].iface = i THEN "wf_lock" ELSE p[u]]

\* The guard on `me` is dropped at the end of the block that reads the bus.
DropMeGuard_Keep(locks, i, t) == [locks EXCEPT ![i] = t]

DropMeGuard(locks, i, t) == [locks EXCEPT ![i] = 0]

\* InterfaceHandle::transmit is called; MockInterface::transmit_arc next takes
\* the interface's lock.
TransmitCall(t, frames) ==
    \E i \in Ifaces, f \in frames :
        /\ Usable(i)
        /\ Begin(t, [NoCall EXCEPT !.op = "transmit", !.iface = i, !.frame = <<f>>])
        /\ Goto(t, "tx_lock")
        /\ UNCHANGED <<ifaces, ilock, buses, block, arc, idx, ret,
                       delivered, popped, attached>>

\* me.lock(), me_locked.bus.upgrade(), the guard is dropped: None returns
\* BusNotAttached, Some(bus) goes on to bus.lock().
TxUpgrade(t) ==
    /\ pc[t] = "tx_lock"
    /\ ilock[call[t].iface] = 0
    /\ ilock' = DropMeGuard(ilock, call[t].iface, t)
    /\ IF Upgrade(ifaces[call[t].iface].bus) = 0
       THEN /\ Return(t, Result("BusNotAttached"))
            /\ UNCHANGED arc
       ELSE /\ arc' = [arc EXCEPT ![t] = Upgrade(ifaces[call[t].iface].bus)]
            /\ Goto(t, "tx_buslock")
            /\ UNCHANGED ret
    /\ UNCHANGED <<ifaces, buses, block, call, idx, ops, delivered, popped, attached, pre>>

\* The guard `bus` of transmit_arc: taken before bus.transmit(frame) and held
\* until transmit_arc returns.
BusGuard_Released(locks, b, t) == locks

BusGuard(locks, b, t) == [locks EXCEPT ![b] = t]

\* bus.lock() is acquired; the fan-out starts at the first registered interface.
TxBusLock(t) ==
    /\ pc[t] = "tx_buslock"
    /\ block[arc[t]] = 0
    /\ block' = BusGuard(block, arc[t], t)
    /\ idx' = [idx EXCEPT ![t] = 1]
    /\ Goto(t, "tx_fanout")
    /\ UNCHANGED <<ifaces, ilock, buses, call, arc, ret, ops,
                   delivered, popped, attached, pre>>

\* `for interface in &self.interfaces`: the interface of the n-th iteration
FanOutTarget_Reversed(registry, n) == registry[Len(registry) + 1 - n]

FanOutTarget(registry, n) == registry[n]

\* The guard `int` of one iteration is dropped at the end of the loop body.
DropIntGuard_Keep(locks, i, t) == [locks EXCEPT ![i] = t]

DropIntGuard(locks, i, t) == [locks EXCEPT ![i] = 0]

\* One iteration of `for interface in &self.interfaces`: interface.lock(),
\* the filter decision, push_back and notify_all, and the guard is dropped.
TxDeliver(t) ==
    /\ pc[t] = "tx_fanout"
    /\ idx[t] <= Len(buses[arc[t]].interfaces)
    /\ LET i == FanOutTarget(buses[arc[t]].interfaces, idx[t])
           frame == call[t].frame[1]
       IN  /\ ilock[i] = 0
           /\ ilock' = DropIntGuard(ilock, i, t)
           /\ IF ShouldReceive(ifaces[i].filters, frame)
              THEN /\ ifaces' = [ifaces EXCEPT ![i].received_frames = PushBack(@, frame)]
                   /\ delivered' = [delivered EXCEPT ![i] = Append(@, frame)]
                   /\ pc' = NotifyAll(pc, i)
              ELSE UNCHANGED <<ifaces, delivered, pc>>
    /\ idx' = [idx EXCEPT ![t] = @ + 1]
    /\ UNCHANGED <<buses, block, call, arc, ret, ops, popped, attached, pre>>

\* The loop is over: the bus guard is dropped, transmit_arc returns Ok(()) and
\* drops its Arc.
TxFinish(t) ==
    /\ pc[t] = "tx_fanout"
    /\ idx[t] > Len(buses[arc[t]].interfaces)
    /\ block' = [block EXCEPT ![arc[t]] = 0]
    /\ arc' = [arc EXCEPT ![t] = 0]
    /\ buses' = Reclaim(buses, arc')
    /\ idx' = [idx EXCEPT ![t] = 0]
    /\ Return(t, Result("Ok"))
    /\ UNCHANGED <<ifaces, ilock, call, ops, delivered, popped, attached, pre>>

\* ---------------------------------------------------------------- filters
\* InterfaceHandle::set_filters: validate_filters(&filters)? returns the error
\* before the lock is taken; a valid list goes on to self.0.lock().
SetFiltersCall(t, lists) ==
    \E i \in Ifaces, fl \in lists :
        /\ Usable(i)
        /\ Begin(t, [NoCall EXCEPT !.op = "set_filters", !.iface = i, !.filters = fl])
        /\ IF ~ValidateFilters(fl)
           THEN /\ ret' = [ret EXCEPT ![t] = Result("KindMismatch")]
                /\ UNCHANGED pc
           ELSE /\ Goto(t, "sf_lock")
                /\ UNCHANGED ret
        /\ UNCHANGED <<ifaces, ilock, buses, block, arc, idx,
                       delivered, popped, attached>>

\* self.0.lock(), int.filters = filters, Ok(())
SetFiltersStore_FirstOnly(t) ==
    /\ pc[t] = "sf_lock"
    /\ ilock[call[t].iface] = 0
    /\ ifaces' = [ifaces EXCEPT ![call[t].iface].filters = SubSeq(call[t].filters, 1, 1)]
    /\ Return(t, Result("Ok"))
    /\ UNCHANGED <<ilock, buses, block, call, arc, idx, ops,
                   delivered, popped, attached, pre>>

SetFiltersStore(t) ==
    /\ pc[t] = "sf_lock"
    /\ ilock[call[t].iface] = 0
    /\ ifaces' = [ifaces EXCEPT ![call[t].iface].filters = call[t].filters]
    /\ Return(t, Result("Ok"))
    /\ UNCHANGED <<ilock, buses, block, call, arc, idx, ops,
                   delivered, popped, attached, pre>>

\* ------------------------------------------------------------ the queue
\* VecDeque::pop_front: the frame removed (none when empty) and what is left
PopFront_Back(queue) ==
    IF queue = <<>> THEN [frame |-> <<>>, rest |-> <<>>]
    ELSE [frame |-> <<queue[Len(queue)]>>, rest |-> SubSeq(queue, 1, Len(queue) - 1)]

PopFront(queue) ==
    IF queue = <<>> THEN [frame |-> <<>>, rest |-> <<>>]
    ELSE [frame |-> <<Head(queue)>>, rest |-> Tail(queue)]

\* InterfaceHandle::pop_frame, called
PopFrameCall(t) ==
    \E i \in Ifaces :
        /\ Usable(i)
        /\ Begin(t, [NoCall EXCEPT !.op = "pop_frame", !.iface = i])
        /\ Goto(t, "pop_lock")
        /\ UNCHANGED <<ifaces, ilock, buses, block, arc, idx, ret,
                       delivered, popped, attached>>

\* self.0.lock().unwrap().received_frames.pop_front()
PopFrame(t) ==
    /\ pc[t] = "pop_lock"
    /\ ilock[call[t].iface] = 0
    /\ LET got == PopFront(ifaces[call[t].iface].received_frames)
       IN  /\ ifaces' = [ifaces EXCEPT ![call[t].iface].received_frames = got.rest]
           /\ popped' = [popped EXCEPT ![call[t].iface] = @ \o got.frame]
           /\ Return(t, [res |-> IF got.frame = <<>> THEN "None" ELSE "Some",
                         frames |-> got.frame, n |-> 0])
    /\ UNCHANGED <<ilock, buses, block, call, arc, idx, ops, delivered, attached, pre>>

\* InterfaceHandle::has_frames, called
HasFramesCall(t) ==
    \E i \in Ifaces :
        /\ Usable(i)
        /\ Begin(t, [NoCall EXCEPT !.op = "has_frames", !.iface = i])
        /\ Goto(t, "hf_lock")
        /\ UNCHANGED <<ifaces, ilock, buses, block, arc, idx, ret,
                       delivered, popped, attached>>

\* !self.0.lock().unwrap().received_frames.is_empty()
HasFrames(t) ==
    /\ pc[t] = "hf_lock"
    /\ ilock[call[t].iface] = 0
    /\ Return(t, Result(IF ifaces[call[t].iface].received_frames # <<>>
                        THEN "true" ELSE "false"))
    /\ UNCHANGED <<ifaces, ilock, buses, block, call, arc, idx, ops,
                   delivered, popped, attached, pre>>

\* InterfaceHandle::received_frames, called
ReceivedFramesCall(t) ==
    \E i \in Ifaces :
        /\ Usable(i)
        /\ Begin(t, [NoCall EXCEPT !.op = "received_frames", !.iface = i])
        /\ Goto(t, "rf_lock")
        /\ UNCHANGED <<ifaces, ilock, buses, block, arc, idx, ret,
                       delivered, popped, attached>>

\* self.0.lock().unwrap().received_frames.iter().cloned().collect()
ReceivedFrames_Drain(t) ==
    /\ pc[t] = "rf_lock"
    /\ ilock[call[t].iface] = 0
    /\ ifaces' = [ifaces EXCEPT ![call[t].iface].received_frames = <<>>]
    /\ Return(t, [res |-> "Ok", frames |-> ifaces[call[t].iface].received_frames,
                  n |-> 0])
    /\ UNCHANGED <<ilock, buses, block, call, arc, idx, ops,
                   delivered, popped, attached, pre>>

ReceivedFrames(t) ==
    /\ pc[t] = "rf_lock"
    /\ ilock[call[t].iface] = 0
    /\ Return(t, [res |-> "Ok", frames |-> ifaces[call[t].iface].received_frames,
                  n |-> 0])
    /\ UNCHANGED <<ifaces, ilock, buses, block, call, arc, idx, ops,
                   delivered, popped, attached, pre>>

\* BusHandle::interface_count, called
InterfaceCountCall(t) ==
    \E b \in Buses :
        /\ buses[b].handles > 0
        /\ Begin(t, [NoCall EXCEPT !.op = "interface_count", !.bus = b])
        /\ Goto(t, "ic_lock")
        /\ UNCHANGED <<ifaces, ilock, buses, block, arc, idx, ret,
                       delivered, popped, attached>>

\* self.0.lock().unwrap().interfaces.len()
InterfaceCount(t) ==
    /\ pc[t] = "ic_lock"
    /\ block[call[t].bus] = 0
    /\ Return(t, [res |-> "Ok", frames |-> <<>>,
                  n |-> Len(buses[call[t].bus].interfaces)])
    /\ UNCHANGED <<ifaces, ilock, buses, block, call, arc, idx, ops,
                   delivered, popped, attached, pre>>

\* ---------------------------------------------------------------- waiting
\* InterfaceHandle::wait_for_frame, called with None or Some(timeout)
WaitForFrameCall(t) ==
    \E i \in Ifaces, timed \in BOOLEAN :
        /\ Usable(i)
        /\ Begin(t, [NoCall EXCEPT !.op = "wait_for_frame", !.iface = i,
                                   !.timeout = timed])
        /\ Goto(t, "wf_lock")
        /\ UNCHANGED <<ifaces, ilock, buses, block, arc, idx, ret,
                       delivered, popped, attached>>

\* The guard wait_for_frame holds from its is_empty() check to the wait.
WaitGuard_Released(locks, i, t) == locks

WaitGuard(locks, i, t) == [locks EXCEPT ![i] = t]

\* wait_for_frame returns r and drops its guard.  Called directly, that ends the
\* call.  Inside recv_timeout the adapter goes on: `if has` leads to a second
\* pop_frame, else to Err(MockError::Timeout).
WaitReturn(t, r) ==
    IF call[t].op = "wait_for_frame" THEN Return(t, r)
    ELSE IF r.res = "true" THEN Goto(t, "rx_pop2") /\ UNCHANGED ret
    ELSE Return(t, Result("Timeout"))

\* The lock is acquired (at the call, or on waking inside the wait) and the
\* queue is looked at: not empty, both branches return true and drop the guard;
\* empty, the thread goes on to wait with the guard held.
WaitCheck(t) ==
    /\ pc[t] = "wf_lock"
    /\ ilock[call[t].iface] = 0
    /\ IF ifaces[call[t].iface].received_frames # <<>>
       THEN /\ WaitReturn(t, Result("true"))
            /\ UNCHANGED ilock
       ELSE /\ ilock' = WaitGuard(ilock, call[t].iface, t)
            /\ Goto(t, "wf_wait")
            /\ UNCHANGED ret
    /\ UNCHANGED <<ifaces, buses, block, call, arc, idx, ops,
                   delivered, popped, attached, pre>>

\* Condvar::wait (or the wait inside wait_timeout_while) releases the lock and
\* parks the thread in one step.
WaitPark(t) ==
    /\ pc[t] = "wf_wait"
    /\ ilock' = [ilock EXCEPT ![call[t].iface] = IF @ = t THEN 0 ELSE @]
    /\ Goto(t, "wf_parked")
    /\ UNCHANGED <<ifaces, buses, block, call, arc, idx, ret, ops,
                   delivered, popped, attached, pre>>

\* !guard.received_frames.is_empty(), the result of the timed branch
TimedResult_True(queue) == "true"

TimedResult(queue) == IF queue # <<>> THEN "true" ELSE "false"

\* Some(timeout) only: the queue was found empty and the timeout has elapsed,
\* so wait_timeout_while returns the guard and the call returns
\* !guard.received_frames.is_empty().
WaitTimeout(t) ==
    /\ pc[t] = "wf_wait"
    /\ call[t].timeout
    /\ ilock' = [ilock EXCEPT ![call[t].iface] = IF @ = t THEN 0 ELSE @]
    /\ WaitReturn(t, Result(TimedResult(ifaces[call[t].iface].received_frames)))
    /\ UNCHANGED <<ifaces, buses, block, call, arc, idx, ops,
                   delivered, popped, attached, pre>>

\* A parked thread wakes without a notification (a spurious wakeup, or the
\* timeout of a timed wait) and goes to reacquire the lock.
WaitWake_NoRecheck(t) ==
    /\ pc[t] = "wf_parked"
    /\ WaitReturn(t, Result("true"))
    /\ UNCHANGED <<ifaces, ilock, buses, block, call, arc, idx, ops,
                   delivered, popped, attached, pre>>

WaitWake(t) ==
    /\ pc[t] = "wf_parked"
    /\ Goto(t, "wf_lock")
    /\ UNCHANGED <<ifaces, ilock, buses, block, call, arc, idx, ret, ops,
                   delivered, popped, attached, pre>>

\* ------------------------------------------------------- adapter receive
\* Option::ok_or on the result of pop_frame
OkOr_NoError(frame, err) == [res |-> "Ok", frames |-> frame, n |-> 0]

OkOr(frame, err) ==
    [res |-> IF frame = <<>> THEN err ELSE "Ok", frames |-> frame, n |-> 0]

\* MockCan::try_recv / MockRx::try_recv, called
TryRecvCall(t) ==
    \E i \in Ifaces :
        /\ Usable(i)
        /\ Begin(t, [NoCall EXCEPT !.op = "try_recv", !.iface = i])
        /\ Goto(t, "tr_lock")
        /\ UNCHANGED <<ifaces, ilock, buses, block, arc, idx, ret,
                       delivered, popped, attached>>

\* self.iface.pop_frame().ok_or(MockError::WouldBlock)
TryRecv(t) ==
    /\ pc[t] = "tr_lock"
    /\ ilock[call[t].iface] = 0
    /\ LET got == PopFront(ifaces[call[t].iface].received_frames)
       IN  /\ ifaces' = [ifaces EXCEPT ![call[t].iface].received_frames = got.rest]
           /\ popped' = [popped EXCEPT ![call[t].iface] = @ \o got.frame]
           /\ Return(t, OkOr(got.frame, "WouldBlock"))
    /\ UNCHANGED <<ilock, buses, block, call, arc, idx, ops, delivered, attached, pre>>

\* MockCan::recv_timeout / MockRx::recv_timeout, called
RecvTimeoutCall(t) ==
    \E i \in Ifaces :
        /\ Usable(i)
        /\ Begin(t, [NoCall EXCEPT !.op = "recv_timeout", !.iface = i,
                                   !.timeout = TRUE])
        /\ Goto(t, "rx_pop")
        /\ UNCHANGED <<ifaces, ilock, buses, block, arc, idx, ret,
                       delivered, popped, attached>>

\* MockCan::recv / MockRx::recv, called: the same steps as recv_timeout with
\* wait_for_frame(None), whose result is always true.
RecvCall(t) ==
    \E i \in Ifaces :
        /\ Usable(i)
        /\ Begin(t, [NoCall EXCEPT !.op = "recv", !.iface = i])
        /\ Goto(t, "rx_pop")
        /\ UNCHANGED <<ifaces, ilock, buses, block, arc, idx, ret,
                       delivered, popped, attached>>

\* if let Some(frame) = self.iface.pop_frame() { return Ok(frame); } and, on
\* None, wait_for_frame(Some(timeout)) is entered up to its lock().
RxPop(t) ==
    /\ pc[t] = "rx_pop"
    /\ ilock[call[t].iface] = 0
    /\ LET got == PopFront(ifaces[call[t].iface].received_frames)
       IN  /\ ifaces' = [ifaces EXCEPT ![call[t].iface].received_frames = got.rest]
           /\ popped' = [popped EXCEPT ![call[t].iface] = @ \o got.frame]
           /\ IF got.frame # <<>>
              THEN Return(t, OkOr(got.frame, "Timeout"))
              ELSE Goto(t, "wf_lock") /\ UNCHANGED ret
    /\ UNCHANGED <<ilock, buses, block, call, arc, idx, ops, delivered, attached, pre>>

\* wait_for_frame returned true: self.iface.pop_frame().ok_or(MockError::Timeout)
RxPop2(t) ==
    /\ pc[t] = "rx_pop2"
    /\ ilock[call[t].iface] = 0
    /\ LET got == PopFront(ifaces[call[t].iface].received_frames)
       IN  /\ ifaces' = [ifaces EXCEPT ![call[t].iface].received_frames = got.rest]
           /\ popped' = [popped EXCEPT ![call[t].iface] = @ \o got.frame]
           /\ Return(t, OkOr(got.frame, "Timeout"))
    /\ UNCHANGED <<ilock, buses, block, call, arc, idx, ops, delivered, attached, pre>>

\* ------------------------------------------------------- filter queries
\* Every identifier and every filter, of matching or mismatched kinds, with raw
\* values up to MaxRaw.
AllIds == {StdId(r) : r \in 0..MaxRaw} \cup {ExtId(r) : r \in 0..MaxRaw}
AllFilters == {IdMaskFilter(i, m) : i \in AllIds, m \in AllIds}

\* filter::matches is called with a filter and an identifier and returns a bool.
MatchesCall(t) ==
    \E f \in AllFilters, id \in AllIds :
        /\ Begin(t, [NoCall EXCEPT !.op = "matches", !.filters = <<f>>,
                                   !.frame = <<NewData(id, <<>>)>>])
        /\ ret' = [ret EXCEPT ![t] = Result(IF Matches(f, id) THEN "true" ELSE "false")]
        /\ UNCHANGED <<ifaces, ilock, buses, block, pc, arc, idx,
                       delivered, popped, attached>>

\* ------------------------------------------------------- specifications
\* A caller of filter::matches alone.
MatchInit == Start({}, MaxOps)
MatchNext == MatchesCall(1)
MatchSpec == MatchInit /\ [][MatchNext]_vars

\* One caller and one bus whose handle is kept: every operation of an
\* InterfaceHandle, and add_interface, each run to its end before the next
\* starts.
Next ==
    \/ NewUnattached(1, FilterLists) \/ AddInterface(1, FilterLists)
    \/ AttachCall(1) \/ AttachCheck(1) \/ AttachRegister(1)
    \/ TransmitCall(1, Frames) \/ TxUpgrade(1) \/ TxBusLock(1)
    \/ TxDeliver(1) \/ TxFinish(1)
    \/ SetFiltersCall(1, FilterLists) \/ SetFiltersStore(1)
    \/ PopFrameCall(1) \/ PopFrame(1)
    \/ ReceivedFramesCall(1) \/ ReceivedFrames(1)
    \/ HasFramesCall(1) \/ HasFrames(1)

Spec == Init /\ [][Next]_vars

\* One caller that makes, clones and drops bus handles, attaches interfaces
\* and transmits.
LifeInit == Start({1}, MaxOps)

LifeNext ==
    \/ BusNew(1) \/ BusClone(1) \/ BusDrop(1)
    \/ NewUnattached(1, {<<>>}) \/ AddInterface(1, {<<>>, <<FStdExact>>})
    \/ AttachCall(1) \/ AttachCheck(1) \/ AttachRegister(1)
    \/ TransmitCall(1, {FrameA}) \/ TxUpgrade(1) \/ TxBusLock(1)
    \/ TxDeliver(1) \/ TxFinish(1)
    \/ InterfaceCountCall(1) \/ InterfaceCount(1)

LifeSpec == LifeInit /\ [][LifeNext]_vars

\* What one caller has built before the others start: two buses, interface 1
\* added to bus 1 with the filters given, and interface 2 either not made yet,
\* made by new_unattached, or added to bus 1 as well.
Built(filters, second) ==
    /\ ifaces = [i \in Ifaces |->
                   IF i = 1 THEN [NewInterface(filters) EXCEPT !.bus = 1]
                   ELSE IF i = 2 /\ second = "added"
                        THEN [NewInterface(<<>>) EXCEPT !.bus = 1]
                   ELSE IF i = 2 /\ second = "unattached" THEN NewInterface(<<>>)
                   ELSE NoInterface]
    /\ ilock = [i \in Ifaces |-> 0]
    /\ buses = [b \in Buses |->
                  IF b = 1
                  THEN [NewBus EXCEPT !.interfaces =
                           IF second = "added" THEN <<1, 2>> ELSE <<1>>]
                  ELSE IF b = 2 THEN NewBus ELSE NoBus]
    /\ block = [b \in Buses |-> 0]
    /\ pc = [t \in Threads |-> "idle"]
    /\ call = [t \in Threads |-> NoCall]
    /\ arc = [t \in Threads |-> 0]
    /\ idx = [t \in Threads |-> 0]
    /\ ret = [t \in Threads |-> NoRet]
    /\ ops = NumThreads
    /\ delivered = [i \in Ifaces |-> <<>>]
    /\ popped = [i \in Ifaces |-> <<>>]
    /\ attached = [i \in Ifaces |->
                     IF i = 1 \/ (i = 2 /\ second = "added") THEN <<1>> ELSE <<>>]
    /\ pre = [ifaces |-> ifaces, buses |-> buses]

\* Threads are interchangeable and a call is all a thread does here, so the
\* k-th call to start is given to thread k.
Turn(t) == call[t].op = "none" /\ \A u \in Threads : u < t => call[u].op # "none"

\* Concurrent callers of every operation that takes a lock and returns
\* without waiting for a frame.
ConcInit == \E second \in {"none", "unattached", "added"} : Built(<<>>, second)

\* The steps of a call in progress.
ConcContinue(t) ==
    \/ AttachCheck(t) \/ AttachRegister(t)
    \/ TxUpgrade(t) \/ TxBusLock(t) \/ TxDeliver(t) \/ TxFinish(t)
    \/ SetFiltersStore(t)
    \/ PopFrame(t)
    \/ HasFrames(t)
    \/ ReceivedFrames(t)
    \/ InterfaceCount(t)

ConcNext ==
    \E t \in Threads :
        \/ Turn(t) /\ AddInterface(t, {<<FExtExact>>})
        \/ Turn(t) /\ AttachCall(t)
        \/ Turn(t) /\ TransmitCall(t, {FrameA})
        \/ Turn(t) /\ SetFiltersCall(t, {<<FExtExact>>})
        \/ Turn(t) /\ PopFrameCall(t)
        \/ Turn(t) /\ HasFramesCall(t)
        \/ Turn(t) /\ ReceivedFramesCall(t)
        \/ Turn(t) /\ InterfaceCountCall(t)
        \/ ConcContinue(t)

\* Every thread that can take the next step of its call eventually takes it:
\* a runnable thread is scheduled and a free lock is granted to a thread
\* waiting for it.  Nothing makes a caller start a call.
ConcSpec ==
    ConcInit /\ [][ConcNext]_vars /\ \A t \in Threads : WF_vars(ConcContinue(t))

\* Concurrent waiters, transmitters and consumers on two interfaces of one
\* bus: interface 1 accepts FrameA only, interface 2 every frame.
WaitInit == Built(<<FStdExact>>, "added")

\* The steps of a call in progress, other than a timeout elapsing and a parked
\* thread waking without a notification.
WaitContinue(t) ==
    \/ TxUpgrade(t) \/ TxBusLock(t) \/ TxDeliver(t) \/ TxFinish(t)
    \/ PopFrame(t)
    \/ WaitCheck(t) \/ WaitPark(t)

WaitNext ==
    \E t \in Threads :
        \/ Turn(t) /\ WaitForFrameCall(t)
        \/ Turn(t) /\ TransmitCall(t, {FrameA, FrameD})
        \/ Turn(t) /\ PopFrameCall(t)
        \/ WaitContinue(t)
        \/ WaitTimeout(t) \/ WaitWake(t)

\* As in ConcSpec, a thread that can take the next step of its call eventually
\* takes it.  Nothing makes a timeout elapse or a spurious wakeup happen.
WaitSpec ==
    WaitInit /\ [][WaitNext]_vars /\ \A t \in Threads : WF_vars(WaitContinue(t))

\* Waiters on interface 1 while other threads transmit from interface 2 and
\* pop, when time passes: the timeout of a thread inside a timed wait eventually
\* elapses, parked (it wakes) or about to park (it returns), and a thread that
\* finds a lock free again and again eventually gets it.
TimedNext ==
    \E t \in Threads :
        \/ Turn(t) /\ WaitForFrameCall(t) /\ call'[t].iface = 1
        \/ Turn(t) /\ TransmitCall(t, {FrameA, FrameD}) /\ call'[t].iface = 2
        \/ Turn(t) /\ PopFrameCall(t)
        \/ WaitContinue(t)
        \/ WaitTimeout(t) \/ WaitWake(t)

TimedSpec ==
    /\ WaitInit /\ [][TimedNext]_vars
    /\ \A t \in Threads :
          /\ SF_vars(WaitContinue(t) \/ (call[t].timeout /\ WaitWake(t)))
          /\ SF_vars(WaitTimeout(t))

\* Concurrent callers of the operations that take an interface's lock, on the
\* topologies of ConcInit; no assumption on scheduling.
LockNext ==
    \E t \in Threads :
        \/ Turn(t) /\ AddInterface(t, {<<FExtExact>>})
        \/ Turn(t) /\ AttachCall(t)
        \/ Turn(t) /\ TransmitCall(t, {FrameA})
        \/ Turn(t) /\ SetFiltersCall(t, {<<FExtExact>>})
        \/ Turn(t) /\ PopFrameCall(t)
        \/ Turn(t) /\ WaitForFrameCall(t)
        \/ AttachCheck(t) \/ AttachRegister(t)
        \/ TxUpgrade(t) \/ TxBusLock(t) \/ TxDeliver(t) \/ TxFinish(t)
        \/ SetFiltersStore(t)
        \/ PopFrame(t)
        \/ WaitCheck(t) \/ WaitPark(t) \/ WaitTimeout(t) \/ WaitWake(t)

LockSpec == ConcInit /\ [][LockNext]_vars

\* Callers that transmit at the same time on two interfaces of one bus, both
\* with an empty filter list.
OrderInit == Built(<<>>, "added")

OrderNext ==
    \E t \in Threads :
        \/ Turn(t) /\ TransmitCall(t, Frames)
        \/ TxUpgrade(t) \/ TxBusLock(t) \/ TxDeliver(t) \/ TxFinish(t)

OrderSpec == OrderInit /\ [][OrderNext]_vars

\* Callers of set_filters while other threads transmit, on two interfaces of
\* one bus: the new list accepts FrameA and FrameB; the list of interface 1
\* accepts FrameA only and the first filter of the new list alone accepts
\* neither.
FilterNext ==
    \E t \in Threads :
        \/ Turn(t) /\ SetFiltersCall(t, {<<FExtExact, FStdOdd>>})
        \/ Turn(t) /\ TransmitCall(t, {FrameA, FrameB})
        \/ SetFiltersStore(t)
        \/ TxUpgrade(t) \/ TxBusLock(t) \/ TxDeliver(t) \/ TxFinish(t)

FilterSpec == WaitInit /\ [][FilterNext]_vars

\* Callers of the adapters' try_recv and recv_timeout while other threads
\* transmit.
RxNext ==
    \E t \in Threads :
        \/ Turn(t) /\ TryRecvCall(t)
        \/ Turn(t) /\ RecvTimeoutCall(t)
        \/ Turn(t) /\ TransmitCall(t, {FrameA, FrameB})
        \/ TxUpgrade(t) \/ TxBusLock(t) \/ TxDeliver(t) \/ TxFinish(t)
        \/ TryRecv(t)
        \/ RxPop(t) \/ RxPop2(t)
        \/ WaitCheck(t) \/ WaitPark(t) \/ WaitTimeout(t) \/ WaitWake(t)

RxSpec == WaitInit /\ [][RxNext]_vars

\* Callers of the adapters' recv and of pop_frame on clones of the same
\* interfaces, while other threads transmit.
RecvNext ==
    \E t \in Threads :
        \/ Turn(t) /\ RecvCall(t)
        \/ Turn(t) /\ PopFrameCall(t)
        \/ Turn(t) /\ TransmitCall(t, {FrameA})
        \/ TxUpgrade(t) \/ TxBusLock(t) \/ TxDeliver(t) \/ TxFinish(t)
        \/ PopFrame(t)
        \/ RxPop(t) \/ RxPop2(t)
        \/ WaitCheck(t) \/ WaitPark(t) \/ WaitWake(t)

RecvSpec == WaitInit /\ [][RecvNext]_vars

\* ------------------------------------------------------------ properties
Returned(t, op) == pc[t] = "idle" /\ call[t].op = op
Range(seq) == {seq[k] : k \in 1..Len(seq)}
QueueOf(i) == ifaces[i].received_frames
QueueBefore(i) == pre.ifaces[i].received_frames

\* A filter list lets a frame through: it is empty, or one of its filters
\* matches the frame's identifier.
Accepts(filters, frame) ==
    \/ Len(filters) = 0
    \/ \E k \in 1..Len(filters) : Matches(filters[k], frame.id)

\* The registry of the bus a returned transmit went out on.
RegistryOf(t) == buses[ifaces[call[t].iface].bus].interfaces

\* C1 (broadcast fan-out): when a transmit of frame F has returned Ok on a bus
\* whose N registered interfaces all have an empty filter list, the queue of each
\* of the N interfaces is its queue from before the call with exactly one F
\* appended, and the registry names N different interfaces.
C1_BroadcastFanOut ==
    \A t \in Threads :
        (/\ Returned(t, "transmit") /\ ret[t].res = "Ok"
         /\ \A i \in Range(RegistryOf(t)) : pre.ifaces[i].filters = <<>>)
        => /\ \A i \in Range(RegistryOf(t)) :
                QueueOf(i) = QueueBefore(i) \o <<call[t].frame[1]>>
           /\ Cardinality(Range(RegistryOf(t))) = Len(RegistryOf(t))

C1_Witness ==
    \E t \in Threads :
        /\ Returned(t, "transmit") /\ ret[t].res = "Ok"
        /\ Len(RegistryOf(t)) = 2
        /\ \A i \in Range(RegistryOf(t)) : pre.ifaces[i].filters = <<>>
        /\ \E i \in Range(RegistryOf(t)) : QueueBefore(i) # <<>>

\* C2 (filter-gated delivery): when a transmit of frame F has returned Ok, every
\* registered interface whose filter list accepts F (empty list, or some filter
\* matches F's identifier) has F appended to its queue, and every registered
\* interface whose non-empty list has no matching filter has its queue unchanged.
C2_FilterGatedDelivery ==
    \A t \in Threads :
        (Returned(t, "transmit") /\ ret[t].res = "Ok")
        => \A i \in Range(RegistryOf(t)) :
              QueueOf(i) = IF Accepts(pre.ifaces[i].filters, call[t].frame[1])
                           THEN QueueBefore(i) \o <<call[t].frame[1]>>
                           ELSE QueueBefore(i)

C2_Witness ==
    \E t \in Threads :
        /\ Returned(t, "transmit") /\ ret[t].res = "Ok"
        /\ \E i, j \in Range(RegistryOf(t)) :
              /\ Len(pre.ifaces[i].filters) = 2
              /\ Accepts(pre.ifaces[i].filters, call[t].frame[1])
              /\ QueueOf(i) # QueueBefore(i)
              /\ pre.ifaces[j].filters # <<>>
              /\ ~Accepts(pre.ifaces[j].filters, call[t].frame[1])
              /\ QueueOf(j) = QueueBefore(j)

\* C5 (unattached transmit): a transmit on an interface that was never attached
\* returns BusNotAttached and leaves the queue of every interface as it was.
C5_UnattachedTransmit ==
    \A t \in Threads :
        (Returned(t, "transmit") /\ attached[call[t].iface] = <<>>)
        => /\ ret[t].res = "BusNotAttached"
           /\ \A i \in Ifaces : QueueOf(i) = QueueBefore(i)

C5_Witness ==
    \E t \in Threads :
        /\ Returned(t, "transmit") /\ attached[call[t].iface] = <<>>
        /\ ret[t].res = "BusNotAttached"
        /\ \E i \in Ifaces : attached[i] # <<>> /\ ifaces[i].filters = <<>>

\* C6 (FIFO queue): for every interface the frames pop_frame has returned,
\* followed by the frames still queued, are the frames delivered to it, in
\* delivery order; a pop_frame on an empty queue returns None, and on a
\* non-empty queue it returns the oldest frame and leaves the rest.
C6_FifoQueue ==
    /\ \A i \in Ifaces : delivered[i] = popped[i] \o QueueOf(i)
    /\ \A t \in Threads :
          Returned(t, "pop_frame")
          => IF QueueBefore(call[t].iface) = <<>>
             THEN ret[t].res = "None" /\ ret[t].frames = <<>>
             ELSE /\ ret[t].res = "Some"
                  /\ ret[t].frames = <<QueueBefore(call[t].iface)[1]>>
                  /\ ret[t].frames \o QueueOf(call[t].iface) = QueueBefore(call[t].iface)

C6_Witness ==
    \E t \in Threads, i \in Ifaces :
        /\ Returned(t, "pop_frame") /\ call[t].iface = i
        /\ delivered[i] = <<FrameA, FrameB>>
        /\ popped[i] = <<FrameA, FrameB>>
        /\ ret[t].frames = <<FrameB>>

\* Every filter of a list has an id and a mask of the same kind.
WellFormed(filters) ==
    \A k \in 1..Len(filters) : filters[k].id.tag = filters[k].mask.tag

\* C9 (filter well-formedness): every filter installed on any interface has an
\* id and a mask of the same kind.
C9_InstalledFiltersWellFormed ==
    \A i \in Ifaces : ifaces[i].created => WellFormed(ifaces[i].filters)

\* C10 (filter replacement is all-or-nothing): a set_filters call whose list
\* holds a filter with mismatched id and mask kinds returns the validation
\* error and leaves every interface's filter list as it was.
C10_SetFiltersAllOrNothing ==
    \A t \in Threads :
        (Returned(t, "set_filters") /\ ~WellFormed(call[t].filters))
        => /\ ret[t].res = "KindMismatch"
           /\ \A i \in Ifaces : ifaces[i].filters = pre.ifaces[i].filters

C10_Witness ==
    \E t \in Threads :
        /\ Returned(t, "set_filters") /\ ~WellFormed(call[t].filters)
        /\ WellFormed(<<call[t].filters[1]>>)
        /\ ifaces[call[t].iface].filters = <<FExtExact, FStdOdd>>

\* A thread-free reading of the strong count at the start of the latest call:
\* between calls of a single caller only the handles keep a bus alive.
AliveBefore(b) == b # 0 /\ pre.buses[b].handles > 0
CountsUnchanged ==
    \A b \in Buses : Len(buses[b].interfaces) = Len(pre.buses[b].interfaces)

Blocker(t) ==
    IF pc[t] \in {"at_lock", "tx_lock", "sf_lock", "pop_lock", "hf_lock",
                  "rf_lock", "wf_lock"}
    THEN ilock[call[t].iface]
    ELSE IF pc[t] \in {"at_buslock", "ic_lock"} THEN block[call[t].bus]
    ELSE IF pc[t] = "tx_buslock" THEN block[arc[t]]
    ELSE IF pc[t] = "tx_fanout" /\ idx[t] <= Len(buses[arc[t]].interfaces)
    THEN ilock[FanOutTarget(buses[arc[t]].interfaces, idx[t])]
    ELSE 0

\* Every thread of S is blocked on a lock held by a thread of S.
Deadlocked(S) == S # {} /\ \A t \in S : Blocker(t) \in S

InUntimedWait(t) ==
    /\ pc[t] \in {"wf_lock", "wf_wait", "wf_parked"}
    /\ ~call[t].timeout

\* The queue of the interface named in thread t's call
CalledQueue(t) ==
    IF call[t].iface \in Ifaces THEN QueueOf(call[t].iface) ELSE <<>>

\* C7: a thread inside wait_for_frame(None) on an interface whose queue holds a
\* frame eventually returns true, unless the queue is emptied by a pop first;
\* this holds for every waiting thread and every interleaving of the waiter's
\* check and park with the transmitter's push_back and notify_all.
C7_NoLostWakeup ==
    \A t \in Threads :
        (InUntimedWait(t) /\ CalledQueue(t) # <<>>)
            ~> (\/ Returned(t, "wait_for_frame") /\ ret[t].res = "true"
                \/ CalledQueue(t) = <<>>)

\* C7 witness: two threads called wait_for_frame(None) on the same interface
\* before a third called transmit; one frame was delivered to it, nobody popped
\* it, and both waiters have returned true.
C7_Witness ==
    \E i \in Ifaces :
        /\ \A t \in {1, 2} :
              /\ call[t].iface = i /\ ~call[t].timeout
              /\ Returned(t, "wait_for_frame") /\ ret[t].res = "true"
        /\ call[3].op = "transmit"
        /\ Len(delivered[i]) = 1
        /\ popped[i] = <<>>

\* C8: no set of threads is ever blocked in a cycle (each on a lock held by a
\* thread of the set, a thread blocked on a lock it holds itself included), and
\* every call of attach, add_interface, transmit, set_filters, pop_frame,
\* has_frames, received_frames and interface_count eventually returns.
C8_DeadlockFreedom ==
    /\ [](\A S \in SUBSET Threads : ~Deadlocked(S))
    /\ \A t \in Threads : (pc[t] # "idle") ~> (pc[t] = "idle")

\* C8 witness: a thread in attach holds its interface's lock and is blocked on
\* the bus lock, held by a transmitting thread whose fan-out has reached the
\* sender's own interface.
C8_Witness ==
    \E t, u \in Threads :
        /\ pc[t] = "at_buslock"
        /\ Blocker(t) = u
        /\ pc[u] = "tx_fanout"
        /\ idx[u] <= Len(buses[arc[u]].interfaces)
        /\ buses[arc[u]].interfaces[idx[u]] = call[u].iface

\* C11: an add_interface call whose list holds a filter with mismatched id and
\* mask kinds returns InvalidFilters and changes nothing: every bus keeps its
\* registry and its interface count, and no interface is made.
C11_AddInterfaceRejectsInvalid ==
    \A t \in Threads :
        (Returned(t, "add_interface") /\ ~WellFormed(call[t].filters))
        => /\ ret[t].res = "InvalidFilters"
           /\ buses = pre.buses
           /\ ifaces = pre.ifaces

\* C11 witness: add_interface was given a list whose first filter is well
\* formed and whose second is not, on a bus that already had an interface.
C11_Witness ==
    \E t \in Threads :
        /\ Returned(t, "add_interface") /\ ~WellFormed(call[t].filters)
        /\ WellFormed(<<call[t].filters[1]>>)
        /\ ret[t].res = "InvalidFilters"
        /\ Len(buses[call[t].bus].interfaces) = 1

\* C12: an add_interface call with a well-formed list returns Ok, never
\* BusAlreadyAttached; the bus's registry is its registry from before the call
\* with the new interface appended (the count grows by exactly one) and the new
\* interface refers to the bus; and a transmit on an interface whose bus still
\* had a handle when the call started does not return BusNotAttached.
C12_AddInterfaceAttaches ==
    \A t \in Threads :
        /\ (Returned(t, "add_interface") /\ WellFormed(call[t].filters))
           => /\ ret[t].res = "Ok"
              /\ buses[call[t].bus].interfaces =
                    Append(pre.buses[call[t].bus].interfaces, call[t].iface)
              /\ ifaces[call[t].iface].bus = call[t].bus
              /\ ifaces[call[t].iface].filters = call[t].filters
        /\ (Returned(t, "transmit") /\ AliveBefore(pre.ifaces[call[t].iface].bus))
           => ret[t].res = "Ok"

\* C12 witness: add_interface with a non-empty well-formed list has returned on
\* a bus that already had an interface.
C12_Witness ==
    \E t \in Threads :
        /\ Returned(t, "add_interface")
        /\ call[t].filters = <<FStdExact>>
        /\ ret[t].res = "Ok"
        /\ Len(pre.buses[call[t].bus].interfaces) = 1
        /\ Len(buses[call[t].bus].interfaces) = 2

\* C13 (loopback): when a transmit of frame F has returned Ok, the sender is in
\* the registry of its bus; if its own filter list accepts F its queue is its
\* queue from before the call with F appended; if its list rejects F its queue
\* is unchanged and every other registered interface that accepts F has F
\* appended.
C13_Loopback ==
    \A t \in Threads :
        (Returned(t, "transmit") /\ ret[t].res = "Ok")
        => LET i == call[t].iface
               F == call[t].frame[1]
           IN  /\ i \in Range(RegistryOf(t))
               /\ IF Accepts(pre.ifaces[i].filters, F)
                  THEN QueueOf(i) = QueueBefore(i) \o <<F>>
                  ELSE /\ QueueOf(i) = QueueBefore(i)
                       /\ \A j \in Range(RegistryOf(t)) \ {i} :
                             Accepts(pre.ifaces[j].filters, F)
                             => QueueOf(j) = QueueBefore(j) \o <<F>>

\* C13 witness: a sender whose filter list rejects its own frame has transmitted
\* it on a bus with another interface that accepts it.
C13_Witness ==
    \E t \in Threads :
        /\ Returned(t, "transmit") /\ ret[t].res = "Ok"
        /\ ~Accepts(pre.ifaces[call[t].iface].filters, call[t].frame[1])
        /\ \E j \in Range(RegistryOf(t)) \ {call[t].iface} :
              /\ Accepts(pre.ifaces[j].filters, call[t].frame[1])
              /\ QueueOf(j) # QueueBefore(j)

\* Bit k of n
Bit(n, k) == (n \div (2 ^ k)) % 2

\* Under the mask, the identifier and the filter's id agree bit by bit.
AgreeUnderMask(filter, id) ==
    \A k \in 0..MaxRaw :
        Bit(filter.mask.raw, k) = 1 => Bit(id.raw, k) = Bit(filter.id.raw, k)

\* C14: matches(filter, candidate) returns true exactly when the candidate has
\* the kind of both the filter's id and the filter's mask and agrees with the
\* filter's id on every bit of the mask; for a candidate of the other kind, and
\* for a filter whose id and mask kinds differ, it returns false; it always
\* returns a bool.
C14_MatchesIffSameKindAndMaskedEqual ==
    \A t \in Threads :
        Returned(t, "matches")
        => LET f == call[t].filters[1]
               id == call[t].frame[1].id
           IN  /\ ret[t].res \in {"true", "false"}
               /\ ret[t].res = "true"
                  <=> /\ id.tag = f.id.tag
                      /\ id.tag = f.mask.tag
                      /\ AgreeUnderMask(f, id)

\* C14 witness: matches has returned false for a candidate that agrees with the
\* filter's id under the mask but is of the other kind.
C14_Witness ==
    \E t \in Threads :
        /\ Returned(t, "matches")
        /\ call[t].filters[1].id.tag = call[t].filters[1].mask.tag
        /\ call[t].frame[1].id.tag # call[t].filters[1].id.tag
        /\ call[t].filters[1].mask.raw = MaxRaw
        /\ AgreeUnderMask(call[t].filters[1], call[t].frame[1].id)
        /\ ret[t].res = "false"

InTimedWait(t) ==
    /\ pc[t] \in {"wf_lock", "wf_wait", "wf_parked"}
    /\ call[t].timeout

\* C15: every wait_for_frame(Some(d)) call returns, whatever the other threads
\* do; when no frame was ever delivered to its interface, so that the queue was
\* empty for the whole wait, it returns false.
C15_TimedWaitTerminates ==
    /\ [](\A t \in Threads :
            (/\ Returned(t, "wait_for_frame") /\ call[t].timeout
             /\ delivered[call[t].iface] = <<>>)
            => ret[t].res = "false")
    /\ \A t \in Threads : InTimedWait(t) ~> Returned(t, "wait_for_frame")

\* C15 witness: a timed wait on an interface nothing was delivered to has
\* returned false although another thread's transmit delivered a frame to
\* another interface and is still in its fan-out.
C15_Witness ==
    \E t, u \in Threads :
        /\ Returned(t, "wait_for_frame") /\ call[t].timeout
        /\ delivered[call[t].iface] = <<>>
        /\ ret[t].res = "false"
        /\ u > t /\ call[u].op = "transmit"
        /\ \E j \in Ifaces : delivered[j] # <<>>

\* Thread t's call is the latest one started and no other thread has called a
\* receive operation on its interface, so `pre` is the state when t's call
\* started and frames leave the interface's queue through t alone.
SoleConsumer(t) ==
    \A u \in Threads \ {t} :
        /\ u > t => call[u].op = "none"
        /\ call[u].op \in {"none", "transmit"}

\* The number of frames delivered to the interface of t's returned call since
\* the call started, t being the sole consumer.
DeliveredDuring(t) ==
    Len(delivered[call[t].iface])
        - (Len(popped[call[t].iface]) - Len(ret[t].frames))
        - Len(QueueBefore(call[t].iface))

\* C16: try_recv never waits; with the queue empty at the call and nothing
\* delivered before it returns, try_recv returns WouldBlock and recv_timeout
\* returns Timeout; with the queue not empty at the call both return Ok with
\* the oldest queued frame and leave the rest of the queue.
C16_AdapterReceiveOnEmpty ==
    \A t \in Threads :
        /\ call[t].op = "try_recv" => pc[t] \in {"idle", "tr_lock"}
        /\ (/\ pc[t] = "idle" /\ call[t].op \in {"try_recv", "recv_timeout"}
            /\ SoleConsumer(t))
           => IF QueueBefore(call[t].iface) # <<>>
              THEN /\ ret[t].res = "Ok"
                   /\ ret[t].frames = <<QueueBefore(call[t].iface)[1]>>
                   /\ Tail(QueueBefore(call[t].iface)) =
                         SubSeq(QueueOf(call[t].iface), 1,
                                Len(QueueBefore(call[t].iface)) - 1)
              ELSE DeliveredDuring(t) = 0
                   => /\ ret[t].res = IF call[t].op = "try_recv"
                                      THEN "WouldBlock" ELSE "Timeout"
                      /\ ret[t].frames = <<>>
                      /\ QueueOf(call[t].iface) = <<>>

\* C16 witness: recv_timeout on an interface whose queue was empty and stayed
\* empty has returned Timeout after another thread's transmit delivered a
\* frame to the other interface.
C16_Witness ==
    \E t \in Threads :
        /\ Returned(t, "recv_timeout") /\ SoleConsumer(t)
        /\ QueueBefore(call[t].iface) = <<>>
        /\ DeliveredDuring(t) = 0
        /\ ret[t].res = "Timeout"
        /\ \E j \in Ifaces \ {call[t].iface} : delivered[j] # <<>>

\* Thread t is at a lock() call on a bus's lock.
AtBusLock(t) == pc[t] \in {"at_buslock", "tx_buslock", "ic_lock"}

\* The interfaces whose lock thread t holds
HeldIfaces(t) == {i \in Ifaces : ilock[i] = t}

\* C17 as claimed (lock-ordering rule): no thread is ever at the lock() of a
\* bus while it holds the lock of an interface.
C17_NoBusLockWhileHoldingInterface ==
    \A t \in Threads : AtBusLock(t) => HeldIfaces(t) = {}

\* C17 as amended: a thread at the lock() of a bus holds the lock of an
\* interface only inside attach or add_interface; the lock it holds is the lock
\* of the interface being attached, and that interface is in no bus's registry.
\* In transmit, set_filters, pop_frame and wait_for_frame no thread is at the
\* lock() of a bus while it holds an interface's lock.
C17_BusLockUnderInterfaceLockOnlyInAttach ==
    \A t \in Threads :
        (AtBusLock(t) /\ HeldIfaces(t) # {})
        => /\ pc[t] = "at_buslock"
           /\ call[t].op \in {"attach_to_bus", "add_interface"}
           /\ HeldIfaces(t) = {call[t].iface}
           /\ \A b \in Buses : call[t].iface \notin Range(buses[b].interfaces)

\* C17 witness: a thread inside attach holds its interface's lock at the lock()
\* of a bus while a transmitting thread is at the lock() of that bus holding no
\* interface's lock.
C17_Witness ==
    \E t, u \in Threads :
        /\ pc[t] = "at_buslock" /\ call[t].op = "attach_to_bus"
        /\ HeldIfaces(t) = {call[t].iface}
        /\ pc[u] = "tx_buslock" /\ arc[u] = call[t].bus
        /\ HeldIfaces(u) = {}

\* The threads whose attach call names interface i
Attachers(i) ==
    {t \in Threads : call[t].op = "attach_to_bus" /\ call[t].iface = i}

\* The places of interface i in the registries of all buses
Registrations(i) ==
    {bk \in Buses \X (1..NumIfaces) :
        /\ bk[2] <= Len(buses[bk[1]].interfaces)
        /\ buses[bk[1]].interfaces[bk[2]] = i}

\* C18: of the attach calls made on one interface, to the same bus or to
\* different buses whose handles are held, at most one returns Ok and it is the
\* one that registered the interface; every other returns BusAlreadyAttached,
\* which is returned only when the interface has been attached; and every
\* interface has at most one place in the registries of all buses.
C18_ConcurrentAttachAtomic ==
    \A i \in Ifaces :
        /\ Cardinality(Registrations(i)) <= 1
        /\ Len(attached[i]) <= 1
        /\ Cardinality({t \in Attachers(i) : pc[t] = "idle" /\ ret[t].res = "Ok"}) <= 1
        /\ \A t \in Attachers(i) :
              pc[t] = "idle"
              => /\ ret[t].res \in {"Ok", "BusAlreadyAttached"}
                 /\ attached[i] # <<>>
                 /\ ret[t].res = "Ok" =>
                       /\ attached[i] = <<call[t].bus>>
                       /\ Registrations(i) \subseteq {call[t].bus} \X (1..NumIfaces)
                       /\ Registrations(i) # {}

\* C18 witness: three threads called attach on the same unattached interface,
\* not all to the same bus; all have returned, one with Ok.
C18_Witness ==
    \E i \in Ifaces :
        /\ Attachers(i) = Threads
        /\ \A t \in Threads : pc[t] = "idle"
        /\ \E t, u \in Threads : call[t].bus # call[u].bus
        /\ \E t \in Threads : ret[t].res = "Ok"

\* How many times frame F is in a sequence of frames
Count(F, seq) == Cardinality({n \in 1..Len(seq) : seq[n] = F})

\* C19: in every state, for two interfaces of one registry, the first attached
\* before the second and with a filter list that is empty (in these runs a list
\* that is empty has never rejected a frame), the first has been given every
\* frame at least as many times as the second: no fan-out has appended a frame
\* to the later interface before the earlier one.
C19_FanOutInAttachOrder ==
    \A b \in Buses :
        \A k, l \in 1..Len(buses[b].interfaces) :
            (k < l /\ ifaces[buses[b].interfaces[k]].filters = <<>>)
            => \A F \in Frames :
                  Count(F, delivered[buses[b].interfaces[k]])
                      >= Count(F, delivered[buses[b].interfaces[l]])

\* C19 witness: a transmit is between two iterations of its fan-out over two
\* accepting interfaces, the second of them attached by a call of these runs:
\* the earlier one holds the frame, the later one does not yet, and another
\* thread is about to pop from the later one.
C19_Witness ==
    \E t, u \in Threads :
        /\ pc[t] = "tx_fanout" /\ idx[t] = 2
        /\ Len(buses[arc[t]].interfaces) = 2
        /\ \A k \in 1..2 : ifaces[buses[arc[t]].interfaces[k]].filters = <<>>
        /\ \E v \in Threads : Returned(v, "attach_to_bus") /\ ret[v].res = "Ok"
        /\ delivered[buses[arc[t]].interfaces[1]] = <<call[t].frame[1]>>
        /\ delivered[buses[arc[t]].interfaces[2]] = <<>>
        /\ pc[u] = "pop_lock" /\ call[u].iface = buses[arc[t]].interfaces[2]

\* C20: no thread ever holds the locks of two interfaces; a thread at the
\* lock() of the bus in transmit, and a thread inside the fan-out between two
\* iterations, holds the lock of no interface.
C20_NoNestedInterfaceLocks ==
    \A t \in Threads :
        /\ Cardinality(HeldIfaces(t)) <= 1
        /\ pc[t] \in {"tx_buslock", "tx_fanout"} => HeldIfaces(t) = {}

\* C20 witness: a transmit that has finished the first iteration of its fan-out
\* holds the bus's lock and no interface's lock, and is blocked on the lock of
\* the second interface, held by a thread on its way into Condvar::wait.
C20_Witness ==
    \E t, u \in Threads :
        /\ pc[t] = "tx_fanout" /\ idx[t] = 2
        /\ block[arc[t]] = t
        /\ HeldIfaces(t) = {}
        /\ Blocker(t) = u
        /\ pc[u] = "wf_wait"

\* Thread t's wait_for_frame returns in this step.
WaitReturns(t) ==
    /\ call[t].op = "wait_for_frame"
    /\ pc[t] # "idle"
    /\ pc'[t] = "idle"

\* C21: in the step in which wait_for_frame returns, it returns true exactly
\* when its interface's queue is not empty and false exactly when it is empty,
\* and a wait_for_frame(None) returns true, whatever wakeups and pops came
\* before.
C21_WaitResultIsQueueState ==
    [][\A t \in Threads :
          WaitReturns(t)
          => /\ ret'[t].res \in {"true", "false"}
             /\ ret'[t].res = "true" <=> QueueOf(call[t].iface)' # <<>>
             /\ ~call[t].timeout => ret'[t].res = "true"]_vars

\* C21 witness: a wait_for_frame(None) was the first call; a frame was then
\* delivered to its interface and popped by another thread, and the wait has
\* not returned: it is parked with the queue empty.
C21_Witness ==
    \E v \in Threads :
        /\ pc[1] = "wf_parked" /\ ~call[1].timeout
        /\ Len(delivered[call[1].iface]) = 1
        /\ popped[call[1].iface] = delivered[call[1].iface]
        /\ Returned(v, "pop_frame") /\ ret[v].res = "Some"
        /\ call[v].iface = call[1].iface

\* The threads whose set_filters call names interface i
FilterSetters(i) ==
    {u \in Threads : call[u].op = "set_filters" /\ call[u].iface = i}

\* The lists that were given whole to interface i: the one it was built with in
\* WaitInit and the lists of the set_filters calls on it.
WholeLists(i) ==
    {IF i = 1 THEN <<FStdExact>> ELSE <<>>}
        \cup {call[u].filters : u \in FilterSetters(i)}

\* Thread t's fan-out decides for one interface in this step.
Decides(t) == pc[t] = "tx_fanout" /\ idx'[t] = idx[t] + 1

\* C22: every delivery decision of a fan-out is made against a list that was
\* given whole to the interface, the one it was built with or the list of a
\* set_filters call, and the frame is appended exactly when that list accepts
\* it; when the one set_filters call on the interface has returned, the
\* decision is made against its list.
C22_FilterReplacementAtomic ==
    [][\A t \in Threads :
          Decides(t)
          => LET i == FanOutTarget(buses[arc[t]].interfaces, idx[t])
                 F == call[t].frame[1]
             IN  /\ ifaces[i].filters \in WholeLists(i)
                 /\ delivered'[i] = IF Accepts(ifaces[i].filters, F)
                                    THEN Append(delivered[i], F)
                                    ELSE delivered[i]
                 /\ \A u \in FilterSetters(i) :
                       (pc[u] = "idle" /\ FilterSetters(i) = {u})
                       => /\ ifaces[i].filters = call[u].filters
                          /\ delivered'[i] = IF Accepts(call[u].filters, F)
                                             THEN Append(delivered[i], F)
                                             ELSE delivered[i]]_vars

\* C22 witness: two transmits of FrameB and one set_filters on interface 1 have
\* returned; interface 2 was given the frame twice and interface 1 once, so one
\* fan-out decided against the old list of interface 1 and the other against
\* the new one.
C22_Witness ==
    /\ \A t \in Threads : pc[t] = "idle"
    /\ \E u \in Threads : FilterSetters(1) = {u} /\ ret[u].res = "Ok"
    /\ delivered[1] = <<FrameB>>
    /\ delivered[2] = <<FrameB, FrameB>>

\* How many attachments to bus b have succeeded so far
AttachmentsTo(b) ==
    Cardinality({ik \in Ifaces \X (1..NumBuses) :
                    /\ ik[2] <= Len(attached[ik[1]])
                    /\ attached[ik[1]][ik[2]] = b})

\* Thread t's attach_to_bus or add_interface on bus b returns Ok in this step.
AttachSucceeds(t, b) ==
    /\ pc[t] = "at_buslock"
    /\ call[t].bus = b
    /\ pc'[t] = "idle"
    /\ ret'[t].res = "Ok"

\* C23: for a bus that has a strong reference after the step, the length of the
\* registry does not decrease in the step, it grows exactly in the steps in which
\* an attach_to_bus or add_interface on that bus returns Ok, and then by one; it
\* equals the number of attachments to the bus that have succeeded; and an
\* interface_count that returns in the step returns that number.
C23_RegistryNeverShrinks ==
    [][\A b \in Buses :
          StrongCount(buses', arc', b) > 0
          => /\ Len(buses'[b].interfaces) >= Len(buses[b].interfaces)
             /\ Len(buses'[b].interfaces) =
                   IF \E t \in Threads : AttachSucceeds(t, b)
                   THEN Len(buses[b].interfaces) + 1
                   ELSE Len(buses[b].interfaces)
             /\ Len(buses'[b].interfaces) = AttachmentsTo(b)'
             /\ \A t \in Threads :
                   (pc[t] = "ic_lock" /\ pc'[t] = "idle" /\ call[t].bus = b)
                   => ret'[t].n = AttachmentsTo(b)']_vars

\* C23 witness: interface_count has returned 2 on a bus, after two attachments
\* to it had succeeded and a handle of the other bus had been made.
C23_Witness ==
    /\ Returned(1, "interface_count")
    /\ ret[1].n = 2
    /\ AttachmentsTo(call[1].bus) = 2
    /\ \A b \in Buses : buses[b].created

\* Thread t's transmit reaches self.bus.upgrade() in this step.
Upgrades(t) ==
    /\ call[t].op = "transmit"
    /\ pc[t] = "tx_lock"
    /\ pc'[t] # "tx_lock"

\* C24: when a transmit reaches the upgrade on an interface that was attached
\* to a bus of which no handle is left and on which no transmit is in progress
\* (no thread holds an Arc of it), the call returns BusNotAttached in that step
\* and no queue and no delivery history changes.
C24_BusDiesWithItsHandles ==
    [][\A t \in Threads :
          (/\ Upgrades(t)
           /\ ifaces[call[t].iface].bus # 0
           /\ StrongCount(buses, arc, ifaces[call[t].iface].bus) = 0)
          => /\ pc'[t] = "idle"
             /\ ret'[t].res = "BusNotAttached"
             /\ delivered' = delivered
             /\ \A j \in Ifaces : QueueOf(j)' = QueueOf(j)]_vars

\* C24 witness: an interface was given its own frame while its bus had a handle;
\* the handle was dropped and the next transmit on the interface has returned
\* BusNotAttached.
C24_Witness ==
    /\ Returned(1, "transmit")
    /\ ret[1].res = "BusNotAttached"
    /\ ifaces[call[1].iface].bus # 0
    /\ buses[ifaces[call[1].iface].bus].handles = 0
    /\ delivered[call[1].iface] = <<FrameA>>

\* Thread t's call, waiting at position p, returns in this step.
ReturnsFrom(t, p) == pc[t] = p /\ pc'[t] = "idle"

\* C25: a received_frames that returns gives the queue of its interface, which
\* is what was delivered to it and not yet popped, oldest first; a has_frames
\* that returns gives whether that queue is non-empty; neither changes any
\* interface (queue, filter list, bus) or any registry. In every step a queue
\* either stays as it is, or loses its first frame to a pop_frame on that
\* interface, or gets one frame appended by the fan-out of a transmit.
C25_QueriesReadOnly ==
    [][/\ \A t \in Threads :
             ReturnsFrom(t, "rf_lock")
             => /\ ret'[t].frames = QueueOf(call[t].iface)
                /\ delivered[call[t].iface] = popped[call[t].iface] \o ret'[t].frames
                /\ ifaces' = ifaces /\ buses' = buses
       /\ \A t \in Threads :
             ReturnsFrom(t, "hf_lock")
             => /\ ret'[t].res = "true" <=> QueueOf(call[t].iface) # <<>>
                /\ ret'[t].res \in {"true", "false"}
                /\ ifaces' = ifaces /\ buses' = buses
       /\ \A j \in Ifaces :
             \/ QueueOf(j)' = QueueOf(j)
             \/ /\ QueueOf(j) # <<>>
                /\ QueueOf(j)' = Tail(QueueOf(j))
                /\ \E t \in Threads :
                      /\ call[t].op = "pop_frame" /\ call[t].iface = j
                      /\ ReturnsFrom(t, "pop_lock")
             \/ \E t \in Threads :
                   /\ call[t].op = "transmit" /\ pc[t] = "tx_fanout"
                   /\ QueueOf(j)' = Append(QueueOf(j), call[t].frame[1])]_vars

\* C25 witness: received_frames has returned two different frames, the queue of
\* its interface, which is still in place.
C25_Witness ==
    /\ Returned(1, "received_frames")
    /\ Len(ret[1].frames) = 2
    /\ ret[1].frames[1] # ret[1].frames[2]
    /\ QueueOf(call[1].iface) = ret[1].frames

\* The threads whose transmit is inside the fan-out of bus b
FanningOut(b) == {t \in Threads : pc[t] = "tx_fanout" /\ arc[t] = b}

\* Frame F was delivered to interface i exactly once.
Once(F, i) == Count(F, delivered[i]) = 1

\* The place of frame F in the delivery order of interface i
PlaceOf(F, i) == CHOOSE n \in 1..Len(delivered[i]) : delivered[i][n] = F

\* C26: in every state at most one transmit is inside the fan-out of a bus, and
\* for two frames F and G and two interfaces I and J that were each given each
\* of the two frames once, F is before G in the delivery order of I exactly when
\* it is before G in the delivery order of J.
C26_TransmitsTotallyOrdered ==
    /\ \A b \in Buses : Cardinality(FanningOut(b)) <= 1
    /\ \A I \in Ifaces, J \in Ifaces, F \in Frames, G \in Frames :
          (/\ I # J /\ F # G
           /\ Once(F, I) /\ Once(G, I) /\ Once(F, J) /\ Once(G, J))
          => (PlaceOf(F, I) < PlaceOf(G, I) <=> PlaceOf(F, J) < PlaceOf(G, J))

\* C26 witness: three transmits of different frames were called at the same
\* time; one has returned, one is in its fan-out between the two interfaces and
\* one is waiting for the bus lock.
C26_Witness ==
    \E t \in Threads, u \in Threads :
        /\ pc[t] = "tx_fanout" /\ idx[t] = 2
        /\ pc[u] = "tx_buslock"
        /\ Len(delivered[1]) = 2 /\ Len(delivered[2]) = 1
        /\ delivered[1][1] # delivered[1][2]
        /\ call[u].frame[1] \notin Range(delivered[1])

\* C27 as claimed: a recv that has returned has returned Ok with one frame, and
\* that frame was delivered to its interface.
C27_RecvNeverErrors ==
    \A t \in Threads :
        Returned(t, "recv")
        => /\ ret[t].res = "Ok"
           /\ Len(ret[t].frames) = 1
           /\ ret[t].frames[1] \in Range(delivered[call[t].iface])

================================================================
